---------------------------- MODULE Spec2Model ----------------------------
(***************************************************************************)
(* Model of the vaf-cli deploy command (src/src/commands/databases.ts,     *)
(* lines 266-818: the deploy.ts variant with Lambda layers) and of the     *)
(* helpers it uses.  The layer branch of deploy() (lines 524-572, 576-577, *)
(* 616-627) is guarded by options['use-layers'], a key no options object   *)
(* of commander has; no invocation enters it and the model has no step     *)
(* for it.                                                                 *)
(*                                                                         *)
(* Several specifications share the module:                                *)
(*   Spec          one non-watch invocation of deploy(), step by step      *)
(*   SpecParams    the release payload assembly as a pure function         *)
(*   SpecWatch     watch mode: chokidar events, the debounce timer and the *)
(*                 deploy() invocations the timer starts                   *)
(*   SpecPack      the ignore list and the contents of the package         *)
(*   SpecArtifacts the package archives of attempts sharing one cwd        *)
(* SpecFair and SpecWatchFair add the fairness the liveness properties     *)
(* are stated under.                                                       *)
(*                                                                         *)
(* JavaScript values: an object is a function from its keys to values; a   *)
(* key that is absent from the DOMAIN is `undefined`.  The string          *)
(* Undefined stands for an undefined positional argument or local.         *)
(***************************************************************************)
EXTENDS Integers, Sequences, FiniteSets, TLC

VARIABLES
    \* ---- inputs of one invocation (Spec) ----
    token,          \* config.getToken() returned a token
    argv,           \* positional arguments given on the command line
    vafConfig,      \* result of loadVafConfig(cwd)
    options,        \* commander's options object
    backendEnvs,    \* what GET /api/projects/:id/environments returns
    \* ---- locals of deploy() ----
    pc,             \* position in deploy()
    finalProjectId,
    finalEnvName,
    envConfig,      \* [defined |-> BOOLEAN, cfg |-> object]
    buildIdx,       \* index of the next declared build command
    useLayers,
    environmentId,
    layerKey,
    layerArn,
    deploymentKey,
    uploadUrlResponse, \* what GET .../deployment/upload-url returned for the package
    deploymentId,
    payload,        \* cleanedParams as posted to .../deployment/deploy
    raised,         \* the error in flight (NoError when none)
    \* ---- pollDeploymentStatus ----
    attempts,
    fetches,        \* number of status fetches issued
    deployment,     \* what the latest status fetch returned
    \* ---- environment ----
    files,          \* temporary artifacts present in cwd
    log,            \* commands run and requests issued, in order
    out,            \* what was reported on the console
    exitCode,       \* NotExited, 0 or 1
    \* ---- SpecParams ----
    pOptions, pEnvConfig, pPayload, pDone,
    \* ---- SpecWatch ----
    alive,          \* the process is running
    deployTimer,    \* seconds until the debounce timer fires, TimerOff if none
    sinceEvent,     \* seconds since the last qualifying event (saturating)
    nEvents,        \* qualifying events handled so far
    bursts,         \* bursts of qualifying events so far
    started,        \* deploy() invocations started so far
    running,        \* phases of the deploy() invocations in flight
    lastFireQuiet,  \* sinceEvent at the latest timer firing
    overlapStarts,  \* invocations started while another was in flight
    ownEvents,      \* qualifying events caused by a deploy() in flight
    superseded,     \* timers cleared when due, before their callback ran
    \* ---- SpecPack ----
    vafignore,      \* the .vafignore file: [exists |-> BOOLEAN, content |-> text]
    ignorePatterns, \* what readVafIgnore returned
    packPatterns,   \* the ignore list handed to zipDirectory for tempZip
    archive,        \* the files that went into tempZip
    packPc,         \* position: "idle", "read", "package", "packed"
    \* ---- SpecArtifacts ----
    tries,          \* the attempts so far: [phase |-> ..., ts |-> timestamp]
    disk,           \* temporary artifacts in cwd: [path |-> ..., owner |-> attempt]
    written,        \* every path an attempt has written, with the attempt
    touched,        \* artifacts of one attempt overwritten or deleted by another
    clock,          \* the latest value Date.now() returned
    sameMs          \* the attempts for which Date.now() may still return it

deployVars == <<token, argv, vafConfig, options, backendEnvs, pc, finalProjectId,
                finalEnvName, envConfig, buildIdx, useLayers, environmentId,
                layerKey, layerArn, deploymentKey, uploadUrlResponse, deploymentId, payload,
                raised, attempts, fetches, deployment, files, log, out, exitCode>>
paramVars  == <<pOptions, pEnvConfig, pPayload, pDone>>
watchVars  == <<alive, deployTimer, sinceEvent, nEvents, bursts, started,
                running, lastFireQuiet, overlapStarts, ownEvents, superseded>>
packVars   == <<vafignore, ignorePatterns, packPatterns, archive, packPc>>
artVars    == <<tries, disk, written, touched, clock, sameMs>>
vars       == <<deployVars, paramVars, watchVars, packVars, artVars>>

---------------------------------------------------------------------------
(* JavaScript helpers *)

Undefined == "undefined"
EmptyObj  == [k \in {} |-> ""]
NoError   == [none |-> TRUE]
NotExited == -1
NoDeployment == [status |-> Undefined, url |-> FALSE, logs |-> FALSE]
NoResponse == [key |-> Undefined]

Has(obj, k)    == k \in DOMAIN obj
\* JS truthiness of obj[k] for a string-valued key
Truthy(obj, k) == Has(obj, k) /\ obj[k] # ""
\* the test applied to the string `${s}`: "undefined" is truthy
TruthyStrOfTemplate(s) == s # ""

\* JS truthiness of a string local
TruthyStr(s)   == s # Undefined /\ s # ""

Err(msg) == [message |-> msg]
\* a console line: utils.error / utils.warn / utils.success / console.log
Msg(kind, text) == [kind |-> kind, text |-> text]

\* Number.prototype.toString for the ids the model uses
IdToString(n) == CASE n = 7 -> "7" [] n = 8 -> "8" [] OTHER -> "0"

---------------------------------------------------------------------------
(* Positional arguments *)

projectId == IF Len(argv) >= 1 THEN argv[1] ELSE Undefined
envName   == IF Len(argv) >= 2 THEN argv[2] ELSE Undefined

\* vaf.yml as deploy() finds it in cwd: absent, not parsable, or its content
NoConfig   == [null |-> TRUE]
Unparsable == [null |-> TRUE, unparsable |-> TRUE]

\* lines 366-381: loadVafConfig returned an object (null for no file and
\* for a file that does not parse)
HasConfig(cfg) == ~Has(cfg, "null")

\* lines 375-378: the catch of loadVafConfig reports and returns null
LoadReport(cfg) ==
    IF Has(cfg, "unparsable") THEN {Msg("error", "Failed to parse vaf.yml")} ELSE {}

\* the object has an environments member
HasEnvironments(cfg) == HasConfig(cfg) /\ Has(cfg, "environments")

\* Object.keys(vafConfig.environments): the own keys
DeclaredEnvs(cfg) == IF HasEnvironments(cfg) THEN DOMAIN cfg.environments ELSE {}

\* the members every object inherits from Object.prototype
InheritedKeys ==
    { "constructor", "toString", "toLocaleString", "valueOf", "hasOwnProperty",
      "isPrototypeOf", "propertyIsEnumerable", "__proto__", "__defineGetter__",
      "__defineSetter__", "__lookupGetter__", "__lookupSetter__" }

\* line 423: name in vafConfig.environments, inherited members included
InEnvironments(cfg, name) == name \in DeclaredEnvs(cfg) \cup InheritedKeys

\* line 462: vafConfig?.environments[finalEnvName]; an inherited member is
\* a function or an object, truthy and without build, runtime or any other
\* setting
EnvConfigOf(cfg, name) ==
    IF HasEnvironments(cfg) /\ name \in DOMAIN cfg.environments
    THEN [defined |-> TRUE, cfg |-> cfg.environments[name]]
    ELSE IF HasEnvironments(cfg) /\ name \in InheritedKeys
    THEN [defined |-> TRUE, cfg |-> EmptyObj]
    ELSE [defined |-> FALSE, cfg |-> EmptyObj]

\* lines 427-432 and 465-470: report, list the declared environments, exit
Exit(err, listed) ==
    [exit |-> TRUE, error |-> err, listed |-> listed, threw |-> "",
     finalProjectId |-> Undefined, finalEnvName |-> Undefined]

\* a TypeError raised by the lines 423, 452 and 462 when the project file
\* has no environments member; err is what was reported before it
Throws(err, typeError) ==
    [exit |-> FALSE, error |-> err, listed |-> {}, threw |-> typeError,
     finalProjectId |-> Undefined, finalEnvName |-> Undefined]


\* lines 412-471: finalProjectId / finalEnvName resolution and validation
ResolveIdentifiers(pid, ename, cfg) ==
    LET hasId == HasConfig(cfg) /\ Has(cfg, "id") /\ cfg.id # 0
        fp    == IF hasId THEN IdToString(cfg.id) ELSE pid
        single == hasId /\ ~TruthyStr(ename) /\ TruthyStr(pid)
        fe    == IF single /\ InEnvironments(cfg, pid) THEN pid ELSE ename
    IN  IF single /\ ~HasEnvironments(cfg)
        THEN Throws("", "Cannot use 'in' operator to search for a key in undefined")
        ELSE IF single /\ ~InEnvironments(cfg, pid)
        THEN Exit("Environment not found in vaf.yml", DeclaredEnvs(cfg))
        ELSE IF ~TruthyStr(fp)
        THEN Exit("Project ID is required", {})
        ELSE IF ~TruthyStr(fe) /\ HasConfig(cfg) /\ ~HasEnvironments(cfg)
        THEN Throws("Environment name is required",
                    "Cannot convert undefined or null to object")
        ELSE IF ~TruthyStr(fe)
        THEN Exit("Environment name is required", DeclaredEnvs(cfg))
        ELSE IF HasConfig(cfg) /\ ~HasEnvironments(cfg)
        THEN Throws("", "Cannot read properties of undefined")
        ELSE IF HasConfig(cfg) /\ ~EnvConfigOf(cfg, fe).defined
        THEN Exit("Environment not found in vaf.yml", DeclaredEnvs(cfg))
        ELSE [exit |-> FALSE, error |-> "", listed |-> {}, threw |-> "",
              finalProjectId |-> fp, finalEnvName |-> fe]

---------------------------------------------------------------------------
(* Inputs of one invocation *)

BuildList == <<"npm ci", "npm run build:prod">>

\* the entry a project file may declare for each of its environments
EnvCfgs ==
    { [runtime |-> "nodejs20.x", memory |-> 1024],
      [runtime |-> "nodejs20.x", memory |-> 1024, build |-> << >>],
      [runtime |-> "nodejs20.x", memory |-> 1024, build |-> BuildList] }

VafConfigs ==
    {NoConfig, Unparsable, [id |-> 7, name |-> "app"]}
    \cup { [id |-> 7, name |-> "app", environments |-> [e \in {"production", "staging"} |-> ec]] : ec \in EnvCfgs }
    \cup { [name |-> "app", environments |-> [e \in {"production", "staging"} |-> ec]] :
               ec \in {[runtime |-> "nodejs20.x", memory |-> 1024, build |-> BuildList]} }

ArgvSet == { << >>, <<"p1">>, <<"production">>, <<"nosuch">>, <<"toString">>,
             <<"p1", "production">>, <<"p1", "e1">>, <<"p1", "nosuch">>,
             <<"p1", "constructor">> }

\* lines 397-398: the object commander hands to the action. --no-build is
\* stored as build = false (build is true without it) and --use-layers as
\* useLayers = true; an option with a value is stored under its own name
CommanderOptions(flags) ==
    [x \in {"build"} |-> "--no-build" \notin flags]
    @@ (IF "--use-layers" \in flags THEN [x \in {"useLayers"} |-> TRUE] ELSE EmptyObj)
    @@ (IF "--runtime docker" \in flags THEN [x \in {"runtime"} |-> "docker"] ELSE EmptyObj)

\* the options object of one invocation: command lines as commander parses
\* them (line 399; the action is the only caller of deploy()). None of them
\* has the keys 'no-build' and 'use-layers' that lines 474 and 519 read
OptionSets ==
    { CommanderOptions(flags) :
          flags \in { {}, {"--no-build"}, {"--use-layers"}, {"--no-build", "--use-layers"},
                      {"--runtime docker"} } }

BackendEnvLists ==
    { << [name |-> "develop", id |-> "e2"], [name |-> "production", id |-> "e1"] >>,
      << [name |-> "develop", id |-> "e2"] >> }

\* temporary artifacts in cwd
TempZip  == ".vaf-deploy-temp-<timestamp>.zip"
LayerZip == ".vaf-layer-temp.zip"

\* one entry of the log: a shell command, an archive or a backend request
Ev(op, arg, project, env, ok) ==
    [op |-> op, arg |-> arg, project |-> project, env |-> env, ok |-> ok]

DeployIdle ==
    /\ token = FALSE
    /\ argv = << >> /\ vafConfig = NoConfig /\ options = EmptyObj
    /\ backendEnvs = << >>
    /\ pc = "idle"
    /\ finalProjectId = Undefined /\ finalEnvName = Undefined
    /\ envConfig = [defined |-> FALSE, cfg |-> EmptyObj]
    /\ buildIdx = 1 /\ useLayers = FALSE
    /\ environmentId = Undefined /\ layerKey = Undefined /\ layerArn = Undefined
    /\ deploymentKey = Undefined /\ deploymentId = Undefined
    /\ uploadUrlResponse = NoResponse
    /\ payload = EmptyObj
    /\ raised = NoError
    /\ attempts = 0 /\ fetches = 0 /\ deployment = NoDeployment
    /\ files = {} /\ log = << >> /\ out = {} /\ exitCode = NotExited

DeployInit ==
    /\ token \in BOOLEAN
    /\ argv \in ArgvSet
    /\ vafConfig \in VafConfigs
    /\ options \in OptionSets
    /\ backendEnvs \in BackendEnvLists
    /\ pc = "action"
    /\ finalProjectId = Undefined /\ finalEnvName = Undefined
    /\ envConfig = [defined |-> FALSE, cfg |-> EmptyObj]
    /\ buildIdx = 1 /\ useLayers = FALSE
    /\ environmentId = Undefined /\ layerKey = Undefined /\ layerArn = Undefined
    /\ deploymentKey = Undefined /\ deploymentId = Undefined
    /\ uploadUrlResponse = NoResponse
    /\ payload = EmptyObj
    /\ raised = NoError
    /\ attempts = 0 /\ fetches = 0 /\ deployment = NoDeployment
    /\ files = {} /\ log = << >> /\ out = {} /\ exitCode = NotExited

inputVars == <<token, argv, vafConfig, options, backendEnvs>>
pollVars  == <<attempts, fetches, deployment>>

\* process.exit(1): the process ends where it stands, no finally block runs
ProcessExit1 == /\ pc' = "exited" /\ exitCode' = 1

---------------------------------------------------------------------------
(* deploy(), lines 406-511: identifiers, build commands, dependencies *)

\* lines 400-404: the action stops at once when no token is stored
CheckToken ==
    /\ pc = "action"
    /\ IF token
       THEN pc' = "start" /\ UNCHANGED <<out, exitCode>>
       ELSE /\ out' = out \cup {Msg("error", "Not authenticated. Please run \"vaf login\"")}
            /\ ProcessExit1
    /\ UNCHANGED <<paramVars, watchVars, packVars, artVars, inputVars, finalProjectId, finalEnvName,
                   envConfig, buildIdx, useLayers, environmentId, layerKey,
                   layerArn, deploymentKey, uploadUrlResponse, deploymentId, payload, raised, pollVars,
                   files, log>>

\* lines 410-471; a TypeError raised here is outside the try of line 513
\* and goes straight to the action's catch
Resolve ==
    /\ pc = "start"
    /\ LET r == ResolveIdentifiers(projectId, envName, vafConfig)
           reported == LoadReport(vafConfig)
                       \cup (IF r.error # "" THEN {Msg("error", r.error)} ELSE {})
                       \cup {Msg("declared", e) : e \in r.listed}
       IN  IF r.exit
           THEN /\ ProcessExit1
                /\ out' = out \cup reported
                /\ UNCHANGED <<finalProjectId, finalEnvName, envConfig, raised>>
           ELSE IF r.threw # ""
           THEN /\ raised' = Err(r.threw)
                /\ pc' = "threw"
                /\ out' = out \cup reported
                /\ UNCHANGED <<finalProjectId, finalEnvName, envConfig, exitCode>>
           ELSE /\ finalProjectId' = r.finalProjectId
                /\ finalEnvName' = r.finalEnvName
                /\ envConfig' = EnvConfigOf(vafConfig, r.finalEnvName)
                /\ pc' = "build"
                /\ out' = out \cup reported
                /\ UNCHANGED <<exitCode, raised>>
    /\ UNCHANGED <<paramVars, watchVars, packVars, artVars, inputVars, buildIdx, useLayers, environmentId, layerKey,
                   layerArn, deploymentKey, uploadUrlResponse, deploymentId, payload, pollVars,
                   files, log>>

\* line 474: const skipBuild = options['no-build'] || false
skipBuild == Has(options, "no-build") /\ options["no-build"]

\* line 475: envConfig?.build && !skipBuild (an empty array is truthy)
RunsDeclaredBuild == envConfig.defined /\ Has(envConfig.cfg, "build") /\ ~skipBuild

\* the loop of lines 477-484 leaving at the first command that fails
NextBuildIdxStopsOnFailure(idx, ok, n) == IF ok THEN idx + 1 ELSE n + 1

\* lines 477-484: the catch warns and the for loop goes on with the next
\* of the n commands
NextBuildIdx(idx, ok, n) == idx + 1

\* lines 477-484: one declared command; a failure is a warning
RunBuildCommand ==
    /\ pc = "build" /\ RunsDeclaredBuild
    /\ buildIdx <= Len(envConfig.cfg.build)
    /\ \E ok \in BOOLEAN :
          /\ log' = Append(log, Ev("exec", envConfig.cfg.build[buildIdx], "", "", ok))
          /\ out' = IF ok THEN out ELSE out \cup {Msg("warn", "Build command failed")}
          /\ buildIdx' = NextBuildIdx(buildIdx, ok, Len(envConfig.cfg.build))
    /\ UNCHANGED <<paramVars, watchVars, packVars, artVars, inputVars, pc, finalProjectId, finalEnvName, envConfig,
                   useLayers, environmentId, layerKey, layerArn, deploymentKey, uploadUrlResponse,
                   deploymentId, payload, raised, pollVars, files, exitCode>>

\* line 485: the loop is over
BuildCommandsCompleted ==
    /\ pc = "build" /\ RunsDeclaredBuild
    /\ buildIdx > Len(envConfig.cfg.build)
    /\ pc' = "install"
    /\ UNCHANGED <<paramVars, watchVars, packVars, artVars, inputVars, finalProjectId, finalEnvName, envConfig, buildIdx,
                   useLayers, environmentId, layerKey, layerArn, deploymentKey, uploadUrlResponse,
                   deploymentId, payload, raised, pollVars, files, log, out, exitCode>>

\* lines 486-496: the else branch, npm run build
RunFallbackBuild ==
    /\ pc = "build" /\ ~RunsDeclaredBuild
    /\ \E ok \in BOOLEAN :
          /\ log' = Append(log, Ev("exec", "npm run build", "", "", ok))
          /\ out' = IF ok THEN out ELSE out \cup {Msg("warn", "Build command failed")}
    /\ pc' = "install"
    /\ UNCHANGED <<paramVars, watchVars, packVars, artVars, inputVars, finalProjectId, finalEnvName, envConfig, buildIdx,
                   useLayers, environmentId, layerKey, layerArn, deploymentKey, uploadUrlResponse,
                   deploymentId, payload, raised, pollVars, files, exitCode>>

PrimaryInstall  == "npm ci --omit=dev"
FallbackInstall == "npm install --production --no-audit --no-fund"

\* deploy() is suspended at the await of line 506: npm ci has failed and
\* npm install is pending
FallbackPending ==
    /\ pc = "install" /\ log # << >>
    /\ log[Len(log)] = Ev("exec", PrimaryInstall, "", "", FALSE)

\* the install without its second strategy
AfterPrimaryInstallNoFallback(ciOk) == "ignore"

\* lines 501-506: where deploy() is when npm ci has settled: at line 513,
\* or in the catch of line 503 awaiting npm install
AfterPrimaryInstall(ciOk) == IF ciOk THEN "ignore" ELSE "install"

\* lines 498-504: await execAsync('npm ci --omit=dev') settles
InstallDependencies ==
    /\ pc = "install" /\ ~FallbackPending
    /\ \E ciOk \in BOOLEAN :
          /\ log' = Append(log, Ev("exec", PrimaryInstall, "", "", ciOk))
          /\ pc' = AfterPrimaryInstall(ciOk)
    /\ UNCHANGED <<paramVars, watchVars, packVars, artVars, inputVars, finalProjectId, finalEnvName, envConfig, buildIdx,
                   useLayers, environmentId, layerKey, layerArn, deploymentKey, uploadUrlResponse,
                   deploymentId, payload, raised, pollVars, files, out, exitCode>>

\* lines 505-511: await execAsync('npm install --production ...') settles;
\* the inner catch only warns and line 513 follows
InstallFallback ==
    /\ FallbackPending
    /\ \E fallbackOk \in BOOLEAN :
          /\ log' = Append(log, Ev("exec", FallbackInstall, "", "", fallbackOk))
          /\ out' = IF fallbackOk THEN out
                    ELSE out \cup {Msg("warn", "Failed to install production dependencies")}
    /\ pc' = "ignore"
    /\ UNCHANGED <<paramVars, watchVars, packVars, artVars, inputVars, finalProjectId, finalEnvName, envConfig, buildIdx,
                   useLayers, environmentId, layerKey, layerArn, deploymentKey, uploadUrlResponse,
                   deploymentId, payload, raised, pollVars, files, exitCode>>

\* what readVafIgnore may throw: fs.readFileSync (part_003 line 68) of a
\* .vafignore that is a directory, or that the user may not read
IgnoreFileErrors ==
    { Err("EISDIR: illegal operation on a directory, read"),
      Err("EACCES: permission denied, open '.vafignore'") }

\* lines 513-519: await readVafIgnore(cwd), then the timestamp, tempZip and
\* useLayers. Line 514 is outside the try of line 521: an error of
\* readVafIgnore leaves deploy() with no finally block run. useLayers is
\* options['use-layers'], which no options object of commander has, so the
\* branches of lines 524-572 and 576-577 are never entered
ReadIgnoreFile ==
    /\ pc = "ignore"
    /\ \/ /\ useLayers' = (Has(options, "use-layers") /\ options["use-layers"])
          /\ pc' = "package"
          /\ raised' = raised
       \/ \E err \in IgnoreFileErrors :
             /\ raised' = err
             /\ pc' = "threw"
             /\ useLayers' = useLayers
    /\ UNCHANGED <<paramVars, watchVars, packVars, artVars, inputVars, finalProjectId, finalEnvName, envConfig, buildIdx,
                   environmentId, layerKey, layerArn, deploymentKey, uploadUrlResponse,
                   deploymentId, payload, pollVars, files, log, out, exitCode>>

---------------------------------------------------------------------------
(* Release payload, lines 659-707.                                         *)
(* database / cache / storage values are sequences of characters so that   *)
(* String.prototype.trim can be computed.                                  *)

\* the code points ECMAScript calls LineTerminator; a character the model
\* has no escape for is written as its code point
LineTerminators == { "\n", "\r", "<U+2028>", "<U+2029>" }

\* what String.prototype.trim strips: the code points ECMAScript calls
\* WhiteSpace, and the LineTerminator ones
IsSpace(c) ==
    c \in { " ", "\t", "<U+000B>", "\f", "<U+00A0>", "<U+FEFF>", "<U+1680>",
            "<U+2000>", "<U+2001>", "<U+2002>", "<U+2003>", "<U+2004>", "<U+2005>",
            "<U+2006>", "<U+2007>", "<U+2008>", "<U+2009>", "<U+200A>", "<U+202F>",
            "<U+205F>", "<U+3000>" } \cup LineTerminators

RECURSIVE TrimLeft(_)
TrimLeft(s) == IF s # << >> /\ IsSpace(Head(s)) THEN TrimLeft(Tail(s)) ELSE s

RECURSIVE TrimRight(_)
TrimRight(s) ==
    IF s # << >> /\ IsSpace(s[Len(s)]) THEN TrimRight(SubSeq(s, 1, Len(s) - 1)) ELSE s

\* the value taken as it is, untrimmed
NoTrim(s) == s

\* String.prototype.trim
Trim(s) == TrimRight(TrimLeft(s))

\* lines 663-664: options.x || envConfig?.x || default
OrDefault(opts, ecfg, k, default) ==
    IF Truthy(opts, k) THEN opts[k]
    ELSE IF Truthy(ecfg, k) THEN ecfg[k]
    ELSE default

\* lines 668-678: options.x !== undefined, else envConfig?.x !== undefined
NumberField(opts, ecfg, k) ==
    IF Has(opts, k) THEN [x \in {k} |-> opts[k]]
    ELSE IF Has(ecfg, k) THEN [x \in {k} |-> ecfg[k]]
    ELSE EmptyObj

\* lines 681, 686, 691: options.x || envConfig?.x
ReferenceValue(opts, ecfg, k) ==
    IF Has(opts, k) /\ Len(opts[k]) > 0 THEN [x \in {k} |-> opts[k]]
    ELSE IF Has(ecfg, k) THEN [x \in {k} |-> ecfg[k]]
    ELSE EmptyObj

\* lines 682-684, 687-689, 692-694: kept when non-empty after trim()
ReferenceField(opts, ecfg, k) ==
    LET v == ReferenceValue(opts, ecfg, k)
    IN  IF Has(v, k) /\ Len(v[k]) > 0 /\ Len(Trim(v[k])) > 0 THEN v ELSE EmptyObj

\* the list added without the test of line 697
LayersFieldUntested(layers, arn) == [x \in {"layers"} |-> <<arn>>]

\* lines 697-699
LayersField(layers, arn) ==
    IF layers /\ TruthyStr(arn) THEN [x \in {"layers"} |-> <<arn>>] ELSE EmptyObj

DefaultRuntime == "nodejs18.x"
DefaultHandler == "index.handler"

\* lines 661-707: deploymentParams, then cleanedParams (undefined keys dropped)
CleanedParams(opts, ecfg, key, layers, arn) ==
    [deploymentKey |-> key,
     runtime |-> OrDefault(opts, ecfg, "runtime", DefaultRuntime),
     handler |-> OrDefault(opts, ecfg, "handler", DefaultHandler)]
    @@ NumberField(opts, ecfg, "memory")
    @@ NumberField(opts, ecfg, "timeout")
    @@ ReferenceField(opts, ecfg, "database")
    @@ ReferenceField(opts, ecfg, "cache")
    @@ ReferenceField(opts, ecfg, "storage")
    @@ LayersField(layers, arn)

---------------------------------------------------------------------------
(* deploy(), lines 521-729: the try block and its finally *)

prepVars == <<finalProjectId, finalEnvName, envConfig, buildIdx, useLayers>>

\* what a request of the api client may throw (part_006 lines 46-58): the
\* message is data.message || error.message, possibly none
ApiErrors == { Err("Network error - could not reach server"), Err("") }

\* an exception inside the try block: control goes to the finally block
Throw(err) == /\ raised' = err /\ pc' = "finally"

\* Array.prototype.find with env.name === name || env.id === name
RECURSIVE FindEnvironment(_, _)
FindEnvironment(envs, name) ==
    IF envs = << >> THEN [found |-> FALSE, id |-> Undefined]
    ELSE IF Head(envs).name = name \/ Head(envs).id = name
         THEN [found |-> TRUE, id |-> Head(envs).id]
         ELSE FindEnvironment(Tail(envs), name)

\* lines 574-586: zipDirectory into tempZip (createThinPackage with
\* useLayers)
CreatePackage ==
    /\ pc = "package"
    /\ \E zipOk \in BOOLEAN, partial \in BOOLEAN :
          /\ log' = Append(log, Ev("zip", IF useLayers THEN "thin" ELSE "full", "", "", zipOk))
          /\ IF zipOk
             THEN /\ files' = files \cup {TempZip}
                  /\ pc' = "environments"
                  /\ raised' = raised
             ELSE /\ files' = files \cup (IF partial THEN {TempZip} ELSE {})
                  /\ Throw(Err("archive error"))
    /\ UNCHANGED <<paramVars, watchVars, packVars, artVars, inputVars, prepVars, environmentId, layerKey, layerArn,
                   deploymentKey, uploadUrlResponse, deploymentId, payload, pollVars, out, exitCode>>

\* the lookup going on with the name as the identifier when nothing matches
OnNoMatchKeeps(layers) == "keep"

\* lines 601-614 and 625-627: what follows a lookup with no match
\* "exit": report, list the backend's environments, process.exit(1)
\* "keep": go on with the name as the identifier
OnNoMatch(layers) == IF layers THEN "keep" ELSE "exit"

\* lines 588-628
ResolveEnvironment ==
    /\ pc = "environments"
    /\ \E err \in ApiErrors, ok \in BOOLEAN :
          /\ log' = Append(log, Ev("GET environments", "package", finalProjectId, "", ok))
          /\ LET f == FindEnvironment(backendEnvs, finalEnvName)
             IN  IF ~ok
                 THEN /\ Throw(err)
                      /\ UNCHANGED <<environmentId, out, exitCode>>
                 ELSE IF f.found
                 THEN /\ environmentId' = f.id
                      /\ pc' = "uploadUrl"
                      /\ UNCHANGED <<raised, out, exitCode>>
                 ELSE IF OnNoMatch(useLayers) = "keep"
                 THEN /\ environmentId' = finalEnvName
                      /\ pc' = "uploadUrl"
                      /\ UNCHANGED <<raised, out, exitCode>>
                 ELSE /\ out' = out \cup {Msg("error", "Environment not found")}
                                    \cup {Msg("available", backendEnvs[i].name) :
                                             i \in 1..Len(backendEnvs)}
                      /\ ProcessExit1
                      /\ UNCHANGED <<environmentId, raised>>
    /\ UNCHANGED <<paramVars, watchVars, packVars, artVars, inputVars, prepVars, layerKey, layerArn, deploymentKey, uploadUrlResponse,
                   deploymentId, payload, pollVars, files>>

\* the request made for the environment as it was named, not as resolved
EnvSegmentByName(envId, name) == name

\* lines 632 and 714: the ${environmentId} of the request path
EnvSegment(envId, name) == envId

ClientKey == "deployments/<timestamp>-package.zip"

\* the key made from the timestamp whatever the backend returned
DeploymentKeyClientOnly(key) == ClientKey

\* line 636: uploadUrlResponse.key || `deployments/${timestamp}-package.zip`
DeploymentKeyFor(key) == IF TruthyStr(key) THEN key ELSE ClientKey

\* lines 630-640
GetUploadUrl ==
    /\ pc = "uploadUrl"
    /\ \E err \in ApiErrors, ok \in BOOLEAN, key \in {"deployments/backend-key", Undefined} :
          /\ log' = Append(log, Ev("GET upload-url", "package", finalProjectId,
                                  EnvSegment(environmentId, finalEnvName), ok))
          /\ IF ok
             THEN /\ uploadUrlResponse' = [key |-> key]
                  /\ deploymentKey' = DeploymentKeyFor(key)
                  /\ pc' = "upload"
                  /\ raised' = raised
             ELSE /\ Throw(err)
                  /\ UNCHANGED <<deploymentKey, uploadUrlResponse>>
    /\ UNCHANGED <<paramVars, watchVars, packVars, artVars, inputVars, prepVars, environmentId, layerKey, layerArn,
                   deploymentId, payload, pollVars, files, out, exitCode>>

\* the catch of lines 652-655 without its rethrow
AfterUploadFailureSwallowed == "trigger"

\* lines 652-655: where control goes when the PUT of the package fails
AfterUploadFailure == "finally"

\* what axios.put may throw
TransportErrors == { Err("socket hang up"), Err("connect ETIMEDOUT") }

\* the report without the message of the error
UploadFailureTextGeneric(err) == "Failed to upload package"

\* line 653: `Failed to upload package: ${uploadError.message}`
UploadFailureText(err) ==
    CASE err.message = "socket hang up" -> "Failed to upload package: socket hang up"
      [] err.message = "connect ETIMEDOUT" -> "Failed to upload package: connect ETIMEDOUT"
      [] OTHER -> "Failed to upload package: "

\* lines 642-655
UploadPackage ==
    /\ pc = "upload"
    /\ \E ok \in BOOLEAN, err \in TransportErrors :
          /\ log' = Append(log, Ev("PUT", "package", "", "", ok))
          /\ IF ok
             THEN /\ pc' = "trigger"
                  /\ UNCHANGED <<raised, out>>
             ELSE /\ out' = out \cup {Msg("error", UploadFailureText(err))}
                  /\ pc' = AfterUploadFailure
                  /\ raised' = IF AfterUploadFailure = "finally" THEN err ELSE raised
    /\ UNCHANGED <<paramVars, watchVars, packVars, artVars, inputVars, prepVars, environmentId, layerKey, layerArn,
                   deploymentKey, uploadUrlResponse, deploymentId, payload, pollVars, files, exitCode>>

\* lines 657-723: assemble the payload, POST it, poll if an id came back
TriggerDeployment ==
    /\ pc = "trigger"
    /\ payload' = CleanedParams(options, envConfig.cfg, deploymentKey, useLayers, layerArn)
    /\ \E err \in ApiErrors, ok \in BOOLEAN, id \in {"d1", Undefined} :
          /\ log' = Append(log, Ev("POST deploy", deploymentKey, finalProjectId,
                                  EnvSegment(environmentId, finalEnvName), ok))
          /\ IF ok
             THEN /\ deploymentId' = id
                  /\ pc' = IF TruthyStr(id) THEN "pollFetch" ELSE "finally"
                  /\ raised' = raised
             ELSE /\ Throw(err)
                  /\ deploymentId' = deploymentId
    /\ UNCHANGED <<paramVars, watchVars, packVars, artVars, inputVars, prepVars, environmentId, layerKey, layerArn,
                   deploymentKey, uploadUrlResponse, pollVars, files, out, exitCode>>

---------------------------------------------------------------------------
(* pollDeploymentStatus, lines 768-816 *)

maxAttempts == 60

\* what GET .../deployment/:id may return: a url comes with "success" only
Responses ==
    { [status |-> "success", url |-> u, logs |-> FALSE] : u \in BOOLEAN }
    \cup { [status |-> "failed", url |-> FALSE, logs |-> l] : l \in BOOLEAN }
    \cup { [status |-> "pending", url |-> FALSE, logs |-> l] : l \in BOOLEAN }

\* what a status fetch may throw: the message the api client's interceptor
\* gives the error (part_006 lines 46-58), possibly none
FetchErrors ==
    { Err("Network error - could not reach server"), Err("Deployment not found"), Err("") }

\* the fetch threw err: no deployment came back
FetchThrew(err) == [status |-> "<threw>", url |-> FALSE, logs |-> FALSE, error |-> err]

\* line 810: error.message || 'Failed to check deployment status'
PollErrorText(err) ==
    IF err.message # "" THEN err.message ELSE "Failed to check deployment status"

\* a catch that reports and lets the loop go round again
AfterFetchErrorRetries == "pollWait"

\* lines 809-812: the catch reports and returns from pollDeploymentStatus
AfterFetchError == "finally"

\* the loop test of line 776 off by one
LoopContinuesOneMore(n) == n <= maxAttempts

\* line 776: while (attempts < maxAttempts)
LoopContinues(n) == n < maxAttempts

\* the loop returning on "success" alone
IsTerminalSuccessOnly(status) == status = "success"

\* lines 784 and 792: the statuses that return from the loop
IsTerminal(status) == status \in {"success", "failed"}

\* lines 782-806: what one fetched deployment makes the loop report
Reported(d) ==
    IF d.status = "success"
    THEN {Msg("success", "Deployment completed successfully!")}
         \cup (IF d.url THEN {Msg("url", "URL")} ELSE {})
    ELSE IF d.status = "failed"
    THEN {Msg("error", "Deployment failed")}
         \cup (IF d.logs THEN {Msg("logs", "full")} ELSE {})
    ELSE IF d.logs THEN {Msg("logs", "last 5 lines")} ELSE {}

\* lines 777-806 and 809-812: one status fetch and what it reports
PollFetch ==
    /\ pc = "pollFetch"
    /\ fetches' = fetches + 1
    /\ \/ \E d \in Responses :
            /\ deployment' = d
            /\ out' = out \cup Reported(d)
            /\ pc' = IF IsTerminal(d.status) THEN "finally" ELSE "pollWait"
       \/ \E err \in FetchErrors :
            /\ deployment' = FetchThrew(err)
            /\ out' = out \cup {Msg("error", PollErrorText(err))}
            /\ pc' = AfterFetchError
    /\ UNCHANGED <<paramVars, watchVars, packVars, artVars, inputVars, prepVars, environmentId,
                   layerKey, layerArn, deploymentKey, uploadUrlResponse, deploymentId, payload,
                   raised, attempts, files, log, exitCode>>

\* lines 807-808, then the loop test of line 776 and the warning of line 815
PollWait ==
    /\ pc = "pollWait"
    /\ attempts' = attempts + 1
    /\ IF LoopContinues(attempts')
       THEN pc' = "pollFetch" /\ out' = out
       ELSE /\ out' = out \cup {Msg("warn", "Deployment is taking longer than expected...")}
            /\ pc' = "finally"
    /\ UNCHANGED <<paramVars, watchVars, packVars, artVars, inputVars, prepVars, environmentId, layerKey, layerArn,
                   deploymentKey, uploadUrlResponse, deploymentId, payload, raised, fetches,
                   deployment, files, log, exitCode>>

---------------------------------------------------------------------------
(* The end of deploy() and of the command's action *)

\* lines 724-729, and for a deploy() that returns, line 760: the action ends
Finally ==
    /\ pc = "finally"
    /\ files' = files \ {TempZip}
    /\ IF raised = NoError
       THEN pc' = "done" /\ exitCode' = 0
       ELSE pc' = "threw" /\ exitCode' = exitCode
    /\ UNCHANGED <<paramVars, watchVars, packVars, artVars, inputVars, prepVars, environmentId,
                   layerKey, layerArn, deploymentKey, uploadUrlResponse, deploymentId, payload,
                   raised, pollVars, log, out>>

\* line 763: error.message || 'Failed to deploy'
ActionErrorText(err) == IF err.message # "" THEN err.message ELSE "Failed to deploy"

\* lines 762-765: the action's catch
ActionCatches ==
    /\ pc = "threw"
    /\ out' = out \cup {Msg("error", ActionErrorText(raised))}
    /\ ProcessExit1
    /\ UNCHANGED <<paramVars, watchVars, packVars, artVars, inputVars, prepVars, environmentId, layerKey, layerArn,
                   deploymentKey, uploadUrlResponse, deploymentId, payload, raised, pollVars,
                   files, log>>

---------------------------------------------------------------------------
(* Idle values of the variables a specification does not use *)

ParamsIdle ==
    /\ pOptions = EmptyObj /\ pEnvConfig = EmptyObj
    /\ pPayload = EmptyObj /\ pDone = FALSE

TimerOff == -1

WatchIdle ==
    /\ alive = FALSE /\ deployTimer = TimerOff /\ sinceEvent = 0
    /\ nEvents = 0 /\ bursts = 0 /\ started = 0 /\ running = << >>
    /\ lastFireQuiet = TimerOff /\ overlapStarts = 0 /\ ownEvents = 0
    /\ superseded = 0

PackIdle ==
    /\ vafignore = [exists |-> FALSE, content |-> << >>]
    /\ ignorePatterns = << >> /\ packPatterns = << >> /\ archive = {}
    /\ packPc = "idle"

ArtIdle ==
    /\ tries = << >>
    /\ disk = {} /\ written = {} /\ touched = {}
    /\ clock = 0 /\ sameMs = {}

---------------------------------------------------------------------------
(* Spec: one invocation of `vaf deploy` without --watch *)

Init == DeployInit /\ ParamsIdle /\ WatchIdle /\ PackIdle /\ ArtIdle

Next ==
    \/ CheckToken
    \/ Resolve
    \/ RunBuildCommand
    \/ BuildCommandsCompleted
    \/ RunFallbackBuild
    \/ InstallDependencies
    \/ InstallFallback
    \/ ReadIgnoreFile
    \/ CreatePackage
    \/ ResolveEnvironment
    \/ GetUploadUrl
    \/ UploadPackage
    \/ TriggerDeployment
    \/ PollFetch
    \/ PollWait
    \/ Finally
    \/ ActionCatches

Spec == Init /\ [][Next]_vars

\* every await of deploy() settles: a step that can be taken is taken
SpecFair == Spec /\ WF_vars(Next)

---------------------------------------------------------------------------
(* SpecParams: the release payload as a function of the options object and *)
(* of the environment's entry in the project file                          *)

\* the objects with at most the key k, holding one of vals
Opt(k, vals) == {EmptyObj} \cup { [x \in {k} |-> v] : v \in vals }

ParamOptions ==
    { r @@ h @@ m @@ t @@ d @@ c @@ g :
        r \in Opt("runtime", {"", "nodejs20.x"}),
        h \in Opt("handler", {"app.main"}),
        m \in Opt("memory", {0, 512}),
        t \in Opt("timeout", {30}),
        d \in Opt("database", {<< >>, <<"<U+00A0>">>, <<"o", "d", "b">>}),
        c \in Opt("cache", {<<" ">>, <<"o", "c">>}),
        g \in Opt("storage", {<< >>, <<"o", "s">>}) }

ParamEnvConfigs ==
    { r @@ h @@ m @@ t @@ d @@ c @@ g :
        r \in Opt("runtime", {"nodejs16.x"}),
        h \in Opt("handler", {"dist/index.handler"}),
        m \in Opt("memory", {1024}),
        t \in Opt("timeout", {900}),
        d \in Opt("database", {<<"e", "d", "b">>}),
        c \in Opt("cache", {<<"e", "c", " ">>}),
        g \in Opt("storage", {<<"<U+FEFF>", "<U+2003>">>}) }


\* lines 659-707 on the inputs drawn
AssembleParams ==
    /\ ~pDone
    /\ pPayload' = CleanedParams(pOptions, pEnvConfig, ClientKey, FALSE, Undefined)
    /\ pDone' = TRUE
    /\ UNCHANGED <<pOptions, pEnvConfig, deployVars, watchVars, packVars, artVars>>

InitParams ==
    /\ pOptions \in ParamOptions
    /\ pEnvConfig \in ParamEnvConfigs
    /\ pPayload = EmptyObj
    /\ pDone = FALSE
    /\ DeployIdle
    /\ WatchIdle
    /\ PackIdle
    /\ ArtIdle
SpecParams == InitParams /\ [][AssembleParams]_vars

---------------------------------------------------------------------------
(* SpecWatch: the watch branch, lines 732-758.                             *)
(* Time advances in seconds.  A timer that has expired is due: its         *)
(* callback runs on a later turn of the event loop, and a watcher event    *)
(* handled before that turn clears it (line 749) like any pending timer.   *)
(* Each deploy() in flight is kept with the phase it is suspended in.      *)

DebounceSecs == 2
MaxEvents == 4
MaxOwnEvents == 2

\* file paths as sequences of characters
SrcFile     == <<"a", ".", "t", "s">>
RootDir     == <<".">>
DepFile     == <<"n", "o", "d", "e", "_", "m", "o", "d", "u", "l", "e", "s", "/", "x">>
TempZipFile == <<".", "v", "a", "f", "-", "d", "e", "p", "l", "o", "y", "-",
                 "t", "e", "m", "p", "-", "1", ".", "z", "i", "p">>
NestedTemp  == <<"o", "u", "t", "/", "x">> \o TempZipFile

\* the paths of the events; the last has a line feed after the dot
EventPaths  == {SrcFile, RootDir, DepFile, TempZipFile, NestedTemp,
                <<"a", "/", ".", "\n", "b">>}

\* String.prototype.includes
Includes(path, sub) ==
    \E i \in 1..(Len(path) - Len(sub) + 1) : SubSeq(path, i, i + Len(sub) - 1) = sub

\* String.prototype.startsWith
StartsWith(path, prefix) ==
    Len(path) >= Len(prefix) /\ SubSeq(path, 1, Len(prefix)) = prefix

\* line 736: ignored: /(^|[\/\\])\../ -- a dot that opens the path or follows
\* a separator, and after it one more character that is no line terminator
\* (the . of a regular expression without the s flag)
Ignored(path) ==
    \E i \in 1..(Len(path) - 1) :
        /\ path[i] = "."
        /\ i = 1 \/ path[i - 1] \in {"/", "\\"}
        /\ path[i + 1] \notin LineTerminators

\* line 744: the handler goes on unless this holds
Skipped(path) ==
    \/ Includes(path, <<".", "v", "a", "f", "-", "d", "e", "p", "l", "o", "y", "-",
                        "t", "e", "m", "p", "-">>)
    \/ StartsWith(path, <<".">>)

\* lines 749-750 without the clearTimeout: a timer already pending is kept
RestartTimerKeepsPending(timer) == IF timer = TimerOff THEN DebounceSecs ELSE timer

\* lines 749-750: clearTimeout(deployTimer); deployTimer = setTimeout(..., 2000)
RestartTimer(timer) == DebounceSecs


TimerPending == deployTimer # TimerOff
TimerDue     == deployTimer = 0

\* lines 742-758: watcher.on('all') for an event chokidar delivers; the
\* timer it clears may be pending or already due
FileEvent ==
    /\ alive
    /\ \E path \in EventPaths :
          /\ ~Ignored(path)
          /\ IF Skipped(path)
             THEN UNCHANGED <<deployTimer, sinceEvent, nEvents, bursts, superseded>>
             ELSE /\ nEvents < MaxEvents
                  /\ nEvents' = nEvents + 1
                  /\ bursts' = IF sinceEvent >= DebounceSecs THEN bursts + 1 ELSE bursts
                  /\ superseded' = IF TimerDue THEN superseded + 1 ELSE superseded
                  /\ sinceEvent' = 0
                  /\ deployTimer' = RestartTimer(deployTimer)
    /\ UNCHANGED <<alive, started, running, lastFireQuiet, overlapStarts, ownEvents,
                   deployVars, paramVars, packVars, artVars>>

\* what a deploy() in flight writes under cwd while it is suspended in a
\* phase: build outputs and node_modules (lines 473-511), then the package
\* archive (lines 517-518, 582)
OwnWrites(phase) ==
    IF phase = "building" THEN {<<"d", "i", "s", "t", "/", "x">>, DepFile}
    ELSE IF phase = "packaging" THEN {TempZipFile}
    ELSE {}

\* lines 742-758 for an event that a deploy() in flight caused
PipelineWrites ==
    /\ alive
    /\ \E i \in DOMAIN running : \E path \in OwnWrites(running[i]) :
          /\ ~Ignored(path)
          /\ IF Skipped(path)
             THEN UNCHANGED <<deployTimer, sinceEvent, ownEvents, bursts, superseded>>
             ELSE /\ ownEvents < MaxOwnEvents
                  /\ ownEvents' = ownEvents + 1
                  /\ bursts' = IF sinceEvent >= DebounceSecs THEN bursts + 1 ELSE bursts
                  /\ superseded' = IF TimerDue THEN superseded + 1 ELSE superseded
                  /\ sinceEvent' = 0
                  /\ deployTimer' = RestartTimer(deployTimer)
    /\ UNCHANGED <<alive, nEvents, started, running, lastFireQuiet, overlapStarts,
                   deployVars, paramVars, packVars, artVars>>

\* one second passes. A timer that is due stays due until its callback
\* runs or an event clears it, however long the event loop takes to get
\* to it; sinceEvent is counted up to DebounceSecs, which is all the
\* handler and the callback tell apart
Tick ==
    /\ alive
    /\ sinceEvent' = IF sinceEvent < DebounceSecs THEN sinceEvent + 1 ELSE sinceEvent
    /\ deployTimer' = IF TimerPending /\ ~TimerDue THEN deployTimer - 1 ELSE deployTimer
    /\ UNCHANGED <<alive, nEvents, bursts, started, running, lastFireQuiet,
                   overlapStarts, ownEvents, superseded, deployVars, paramVars, packVars, artVars>>

\* lines 750-756: the callback of a due timer runs and calls deploy(),
\* which runs up to its first await (the first build command, line 480 or
\* 490), or throws before it (lines 423, 452, 462 on a project file without
\* environments; the catch of lines 754-756 reports and the session goes
\* on), or leaves through process.exit(1) (lines 432-470)
TimerFires ==
    /\ alive /\ TimerDue
    /\ started' = started + 1
    /\ lastFireQuiet' = sinceEvent
    /\ overlapStarts' = IF running # << >> THEN overlapStarts + 1 ELSE overlapStarts
    /\ \/ /\ running' = Append(running, "building")
          /\ deployTimer' = TimerOff
          /\ alive' = alive
       \/ /\ running' = running
          /\ deployTimer' = TimerOff
          /\ alive' = alive
       \/ /\ running' = << >>
          /\ deployTimer' = TimerOff
          /\ alive' = FALSE
    /\ UNCHANGED <<sinceEvent, nEvents, bursts, ownEvents, superseded,
                   deployVars, paramVars, packVars, artVars>>

Remove(seq, i) == SubSeq(seq, 1, i - 1) \o SubSeq(seq, i + 1, Len(seq))

NextPhase(phase) ==
    CASE phase = "building"  -> "packaging"
      [] phase = "packaging" -> "uploading"
      [] phase = "uploading" -> "polling"
      [] OTHER -> "finished"

\* a deploy() in flight resumes after an await and runs to the next one
\* (lines 473-723), or to its end
DeployAdvances ==
    /\ alive
    /\ \E i \in DOMAIN running :
          running' = IF NextPhase(running[i]) = "finished"
                     THEN Remove(running, i)
                     ELSE [running EXCEPT ![i] = NextPhase(running[i])]
    /\ UNCHANGED <<alive, deployTimer, sinceEvent, nEvents, bursts, started,
                   lastFireQuiet, overlapStarts, ownEvents, superseded,
                   deployVars, paramVars, packVars, artVars>>

\* a deploy() in flight throws: readVafIgnore when the install is over
\* (line 514), or a step of the try block (lines 521-729); the timer
\* callback catches and reports (lines 754-756)
DeployThrows ==
    /\ alive
    /\ \E i \in DOMAIN running :
          /\ running[i] \in {"building", "packaging", "uploading"}
          /\ running' = Remove(running, i)
    /\ UNCHANGED <<alive, deployTimer, sinceEvent, nEvents, bursts, started,
                   lastFireQuiet, overlapStarts, ownEvents, superseded,
                   deployVars, paramVars, packVars, artVars>>

\* a deploy() in flight reaches process.exit(1) at line 612: the process,
\* its timer and every other deploy() in flight end with it
DeployExitsProcess ==
    /\ alive
    /\ \E i \in DOMAIN running : running[i] = "packaging"
    /\ alive' = FALSE
    /\ running' = << >>
    /\ deployTimer' = TimerOff
    /\ UNCHANGED <<sinceEvent, nEvents, bursts, started, lastFireQuiet,
                   overlapStarts, ownEvents, superseded, deployVars, paramVars, packVars, artVars>>

InitWatch ==
    /\ alive = TRUE
    /\ deployTimer = TimerOff
    /\ sinceEvent = DebounceSecs
    /\ nEvents = 0 /\ bursts = 0 /\ started = 0
    /\ running = << >>
    /\ lastFireQuiet = TimerOff
    /\ overlapStarts = 0
    /\ ownEvents = 0
    /\ superseded = 0
    /\ DeployIdle
    /\ ParamsIdle
    /\ PackIdle
    /\ ArtIdle

NextWatch ==
    \/ FileEvent
    \/ PipelineWrites
    \/ Tick
    \/ TimerFires
    \/ DeployAdvances
    \/ DeployThrows
    \/ DeployExitsProcess

SpecWatch == InitWatch /\ [][NextWatch]_vars

\* time passes and a timer that is due runs its callback
SpecWatchFair == SpecWatch /\ WF_vars(Tick) /\ WF_vars(TimerFires)

---------------------------------------------------------------------------
(* SpecPack: the ignore list and what goes into the function package.      *)
(* readVafIgnore and zipDirectory are in src/unnamed/part_003.  Texts are   *)
(* sequences of tokens: a name, a separator, a wildcard, one whitespace     *)
(* character or "#" each.                                                   *)

MaxLines == 2

DepDir     == <<"node_modules">>
DepPattern == <<"node_modules", "/", "**">>

\* part_003 line 65: the list returned when there is no .vafignore
DefaultIgnore ==
    << DepPattern, <<".git", "/", "**">>, <<"*", ".log">>, <<".env">>, <<".DS_Store">> >>

\* lines a .vafignore may hold; the last three reach into the dependency
\* directory without having its name in them
IgnoreLines ==
    { DepPattern,
      <<" ", "dist", "/", "**", "\t", "\r">>,
      <<"#", " ", "node_modules">>,
      <<" ", "#", "x">>,
      << >>,
      <<"*", ".log">>,
      <<" ", "\t">>,
      <<"**", "/", "*", ".log">>,
      <<"**">>,
      <<"node_*", "/", "**">> }

RECURSIVE JoinLines(_)
JoinLines(ls) ==
    IF ls = << >> THEN << >>
    ELSE IF Len(ls) = 1 THEN ls[1]
    ELSE ls[1] \o <<"\n">> \o JoinLines(Tail(ls))

\* the texts of at most MaxLines lines, with and without a final newline
IgnoreContents ==
    LET lists == UNION { [1..n -> IgnoreLines] : n \in 0..MaxLines }
    IN  { JoinLines(ls) : ls \in lists } \cup { JoinLines(ls) \o <<"\n">> : ls \in lists }

IgnoreFiles ==
    { [exists |-> FALSE, content |-> << >>] }
    \cup { [exists |-> TRUE, content |-> c] : c \in IgnoreContents }

\* the files of the project directory (none of them hidden)
ProjectFiles ==
    { <<"index", ".js">>,
      <<"app", ".log">>,
      <<"dist", "/", "out", ".js">>,
      <<"node_modules", "/", "x", "/", "index", ".js">>,
      <<"node_modules", "/", "x", "/", "debug", ".log">> }

\* String.prototype.split('\n')
RECURSIVE Split(_)
Split(text) ==
    IF \A i \in DOMAIN text : text[i] # "\n" THEN <<text>>
    ELSE LET k == CHOOSE i \in DOMAIN text :
                     text[i] = "\n" /\ \A j \in 1..(i - 1) : text[j] # "\n"
         IN  <<SubSeq(text, 1, k - 1)>> \o Split(SubSeq(text, k + 1, Len(text)))

\* the filter of line 72 letting comment lines through
KeepLineNonEmpty(line) == line # << >>

\* part_003 line 72: line && !line.startsWith('#')
KeepLine(line) == line # << >> /\ ~StartsWith(line, <<"#">>)

\* part_003 lines 62-74
ReadVafIgnore(file) ==
    IF ~file.exists THEN DefaultIgnore
    ELSE LET lines == Split(file.content)
             trimmed == [i \in DOMAIN lines |-> Trim(lines[i])]
         IN  SelectSeq(trimmed, KeepLine)

MentionsDepDir(pattern) == Includes(pattern, DepDir)
NotMentionsDepDir(pattern) == ~MentionsDepDir(pattern)

\* databases.ts lines 579-581: the patterns that include 'node_modules' dropped
FullPatterns(patterns) == SelectSeq(patterns, NotMentionsDepDir)

\* a name of the pattern against a name of the path: the same name, or a
\* name with a wildcard in it that the path's name fits
NameMatches(p, name) == p = name \/ (p = "node_*" /\ name = "node_modules")

\* the ignore matcher of archive.glob (minimatch with dot: true) on a whole
\* path: "**" as a path segment stands for any number of directories, none
\* included; "*" stays within a segment
RECURSIVE Match(_, _)
Match(pattern, path) ==
    IF pattern = << >> THEN path = << >>
    ELSE IF pattern = <<"**">> THEN TRUE
    ELSE IF Head(pattern) = "**" /\ pattern[2] = "/"
    THEN LET rest == SubSeq(pattern, 3, Len(pattern))
         IN  \/ Match(rest, path)
             \/ \E k \in 1..Len(path) :
                   path[k] = "/" /\ Match(rest, SubSeq(path, k + 1, Len(path)))
    ELSE IF Head(pattern) \in {"*", "**"}
    THEN \E k \in 0..Len(path) :
            /\ \A j \in 1..k : path[j] # "/"
            /\ Match(Tail(pattern), SubSeq(path, k + 1, Len(path)))
    ELSE /\ path # << >>
         /\ NameMatches(Head(pattern), Head(path))
         /\ Match(Tail(pattern), Tail(path))

\* part_003 lines 48-56: glob('**/*') with the ignore list, or the whole
\* directory when the list is empty
ZipDirectory(dirFiles, patterns) ==
    IF Len(patterns) > 0
    THEN { f \in dirFiles : \A i \in DOMAIN patterns : ~Match(patterns[i], f) }
    ELSE dirFiles


\* databases.ts line 514
ReadIgnorePatterns ==
    /\ packPc = "read"
    /\ ignorePatterns' = ReadVafIgnore(vafignore)
    /\ packPc' = "package"
    /\ UNCHANGED <<vafignore, packPatterns, archive,
                   deployVars, paramVars, watchVars, artVars>>

\* databases.ts lines 578-583: the branch taken with useLayers undefined
PackFull ==
    /\ packPc = "package"
    /\ packPatterns' = FullPatterns(ignorePatterns)
    /\ archive' = ZipDirectory(ProjectFiles, packPatterns')
    /\ packPc' = "packed"
    /\ UNCHANGED <<vafignore, ignorePatterns,
                   deployVars, paramVars, watchVars, artVars>>

InitPack ==
    /\ vafignore \in IgnoreFiles
    /\ ignorePatterns = << >> /\ packPatterns = << >> /\ archive = {}
    /\ packPc = "read"
    /\ DeployIdle
    /\ ParamsIdle
    /\ WatchIdle
    /\ ArtIdle

NextPack ==
    \/ ReadIgnorePatterns
    \/ PackFull

SpecPack == InitPack /\ [][NextPack]_vars

---------------------------------------------------------------------------
(* SpecArtifacts: the package archives of deploy() attempts that share one *)
(* working directory.  An attempt may start while another is in flight     *)
(* (the timer callback of lines 750-757 has no guard) or after another has  *)
(* ended.  Each attempt is kept with the phase it is suspended in:          *)
(* "install" (lines 473-511), "open" (zipDirectory called, the archive not  *)
(* yet created), "zip" (the archive open and being written), "upload"       *)
(* (lines 588-723); or with how it ended: "done", "failed" (it threw) or    *)
(* "exited".                                                                *)

MaxAttempts == 2

\* the timestamp of an attempt that has not reached line 517
NoStamp == 0
\* a path in cwd: the name and the timestamp in it
ArtifactPath(name, ts) == [name |-> name, ts |-> ts]

\* line 518: path.join(cwd, `.vaf-deploy-temp-${timestamp}.zip`)
TempZipPath(ts) == ArtifactPath(TempZip, ts)

\* the disk with its history: d = [disk, written, touched]
OnDisk(d, path) == \E e \in d.disk : e.path = path
OthersOwning(d, path, by) == { e \in d.disk : e.path = path /\ e.owner # by }

\* fs.unlinkSync of a path that exists
Delete(d, path, by) ==
    [disk    |-> { e \in d.disk : e.path # path },
     written |-> d.written,
     touched |-> d.touched \cup
                 { [name |-> path.name, how |-> "deleted"] : e \in OthersOwning(d, path, by) }]

\* the stream of fs.createWriteStream (part_003 line 39) has opened its
\* file: with the flag 'w' the path is created, or truncated when it was
\* there.  This happens on a turn of the event loop after the call
Write(d, path, by) ==
    [disk    |-> { e \in d.disk : e.path # path } \cup {[path |-> path, owner |-> by]},
     written |-> d.written \cup {[path |-> path, owner |-> by]},
     touched |-> d.touched \cup
                 { [name |-> path.name, how |-> "overwritten"] : e \in OthersOwning(d, path, by) }]

\* lines 724-729, run for every throw and return inside the try of lines
\* 521-723: if (fs.existsSync(tempZip)) fs.unlinkSync(tempZip)
FinallyUnlink(d, ts, by) ==
    IF OnDisk(d, TempZipPath(ts)) THEN Delete(d, TempZipPath(ts), by) ELSE d

Now == [disk |-> disk, written |-> written, touched |-> touched]

Becomes(d) == /\ disk' = d.disk /\ written' = d.written /\ touched' = d.touched

\* line 517: the values Date.now() may return to attempt i: a later one, or
\* the one it returned last when no time has passed since
ClockReadings(i) == IF i \in sameMs THEN {clock, clock + 1} ELSE {clock + 1}

\* the attempts that may reach line 517 within the millisecond in which
\* attempt i did: those whose install is under way
MayReadSame(i) == { j \in DOMAIN tries : j # i /\ tries[j].phase = "install" }


\* process.exit(1): every attempt of the process ends where it stands and
\* no finally block runs
ExitedWhereTheyStand ==
    [i \in DOMAIN tries |->
        IF tries[i].phase \in {"done", "failed"} THEN tries[i]
        ELSE [phase |-> "exited", ts |-> tries[i].ts]]

\* line 752 or 760: deploy() is called and runs up to its first await in
\* the build and install commands (lines 473-511); or it leaves through
\* process.exit(1) before that (lines 432, 439, 447, 458, 470), whatever
\* the attempts in flight are doing; or it throws before that (lines 423,
\* 452, 462) and touches nothing
StartAttempt ==
    /\ \/ /\ Len(tries) < MaxAttempts
          /\ tries' = Append(tries, [phase |-> "install", ts |-> NoStamp])
       \/ tries' = ExitedWhereTheyStand
       \/ tries' = tries
    /\ UNCHANGED <<disk, written, touched, clock, sameMs,
                   deployVars, paramVars, watchVars, packVars>>

\* lines 513-519 and 582 with part_003 lines 38-58: the install is over;
\* readVafIgnore throws (line 514 is outside the try, no finally block
\* runs), or the timestamp is taken and zipDirectory called, which asks for
\* the archive to be opened and returns its promise: the file is not on
\* disk yet when the attempt is suspended
BeginPackaging ==
    \E i \in DOMAIN tries :
       /\ tries[i].phase = "install"
       /\ \/ /\ tries' = [tries EXCEPT ![i].phase = "failed"]
             /\ UNCHANGED <<clock, sameMs>>
          \/ \E ts \in ClockReadings(i) :
                /\ clock' = ts /\ sameMs' = MayReadSame(i)
                /\ tries' = [tries EXCEPT ![i] = [phase |-> "open", ts |-> ts]]
       /\ UNCHANGED <<disk, written, touched, deployVars, paramVars, watchVars, packVars>>

\* part_003 lines 39-43: the archive is opened for writing; when it cannot
\* be (the 'error' event of the stream) zipDirectory rejects and the
\* finally block runs
ArchiveOpened ==
    \E i \in DOMAIN tries :
       /\ tries[i].phase = "open"
       /\ \E ok \in BOOLEAN :
             IF ok
             THEN /\ Becomes(Write(Now, TempZipPath(tries[i].ts), i))
                  /\ tries' = [tries EXCEPT ![i].phase = "zip"]
             ELSE /\ Becomes(FinallyUnlink(Now, tries[i].ts, i))
                  /\ tries' = [tries EXCEPT ![i].phase = "failed"]
       /\ UNCHANGED <<clock, sameMs, deployVars, paramVars, watchVars, packVars>>

\* lines 582-586: the package zip is complete and stat'ed; when
\* zipDirectory rejected or the zip is gone the finally block runs
ZipDone ==
    \E i \in DOMAIN tries :
       /\ tries[i].phase = "zip"
       /\ \E ok \in BOOLEAN :
             IF ok /\ OnDisk(Now, TempZipPath(tries[i].ts))
             THEN /\ UNCHANGED <<disk, written, touched>>
                  /\ tries' = [tries EXCEPT ![i].phase = "upload"]
             ELSE /\ Becomes(FinallyUnlink(Now, tries[i].ts, i))
                  /\ tries' = [tries EXCEPT ![i].phase = "failed"]
       /\ UNCHANGED <<clock, sameMs, deployVars, paramVars, watchVars, packVars>>

\* lines 588-729: the requests, the upload and the poll end, by a return
\* or by an error thrown, and the finally block runs
AttemptEnds ==
    \E i \in DOMAIN tries :
       /\ tries[i].phase = "upload"
       /\ Becomes(FinallyUnlink(Now, tries[i].ts, i))
       /\ \E ok \in BOOLEAN :
             tries' = [tries EXCEPT ![i].phase = IF ok THEN "done" ELSE "failed"]
       /\ UNCHANGED <<clock, sameMs, deployVars, paramVars, watchVars, packVars>>

\* line 612: an attempt, its package zipped, finds no environment and
\* calls process.exit(1)
AttemptExitsProcess ==
    /\ \E i \in DOMAIN tries : tries[i].phase = "upload"
    /\ tries' = ExitedWhereTheyStand
    /\ UNCHANGED <<disk, written, touched, clock, sameMs,
                   deployVars, paramVars, watchVars, packVars>>

\* time passes: Date.now() has moved on
ClockAdvances ==
    /\ sameMs # {}
    /\ sameMs' = {}
    /\ UNCHANGED <<tries, disk, written, touched, clock,
                   deployVars, paramVars, watchVars, packVars>>

InitArtifacts ==
    /\ tries = << >>
    /\ disk = {} /\ written = {} /\ touched = {}
    /\ clock = 0 /\ sameMs = {}
    /\ DeployIdle
    /\ ParamsIdle
    /\ WatchIdle
    /\ PackIdle

NextArtifacts ==
    \/ StartAttempt
    \/ BeginPackaging
    \/ ArchiveOpened
    \/ ZipDone
    \/ AttemptEnds
    \/ AttemptExitsProcess
    \/ ClockAdvances

SpecArtifacts == InitArtifacts /\ [][NextArtifacts]_vars

---------------------------------------------------------------------------
(* Properties of the temporary artifacts (SpecArtifacts) *)

\* C21: every temporary artifact path an attempt writes is its own: no path
\* is written by two attempts, and no attempt overwrites or deletes an
\* artifact that another attempt put on disk, whether the two overlap or
\* one follows the other's failure.
C21_ArtifactPathsUniquePerAttempt ==
    /\ \A w1 \in written, w2 \in written : w1.path = w2.path => w1.owner = w2.owner
    /\ touched = {}

---------------------------------------------------------------------------
(* Properties of the ignore list and the package (SpecPack) *)

Range(seq) == { seq[i] : i \in DOMAIN seq }
\* nothing but whitespace
Blank(chars) == \A i \in DOMAIN chars : IsSpace(chars[i])
InDepDir(path) == path # << >> /\ Head(path) = "node_modules"

\* C13: whatever the ignore list, the full package (the one package an
\* invocation makes: none takes the layer path and makes the thin one) is
\* zipped with an exclusion list that has no pattern naming the dependency
\* directory, and it has every file of the dependency directory.
C13_DependencyDirectoryInOrOut ==
    packPc = "packed" =>
        /\ \A q \in Range(packPatterns) : ~MentionsDepDir(q)
        /\ \A f \in ProjectFiles : InDepDir(f) => f \in archive

\* the lines of the file that are not blank and not comments, by position
KeptLines(lines) ==
    { i \in DOMAIN lines : ~Blank(lines[i]) /\ Head(Trim(lines[i])) # "#" }

\* the n-th smallest member of a set of positions
Nth(positions, n) ==
    CHOOSE i \in positions : Cardinality({k \in positions : k < i}) = n - 1

\* the patterns an existing ignore file stands for
PatternsOfFile(file) ==
    LET lines == Split(file.content)
        kept  == KeptLines(lines)
    IN  [n \in 1..Cardinality(kept) |-> Trim(lines[Nth(kept, n)])]

\* C17 as stated: for an existing ignore file the trimmed lines that are not
\* blank and do not start with "#", in file order; for a missing one the
\* default set of the version-control directory, log files, the env file
\* and the OS metadata file.
C17_IgnoreFileOrDefaultOfFour ==
    packPc # "read" =>
        IF vafignore.exists
        THEN ignorePatterns = PatternsOfFile(vafignore)
        ELSE /\ Range(ignorePatterns) =
                    { <<".git", "/", "**">>, <<"*", ".log">>, <<".env">>, <<".DS_Store">> }
             /\ Len(ignorePatterns) = 4

\* C17 amended: for an existing ignore file the trimmed lines that are not
\* blank and do not start with "#", in file order; for a missing one the
\* default list of the dependency directory, the version-control directory,
\* log files, the env file and the OS metadata file.
C17_IgnoreFileOrDefaultOfFive ==
    packPc # "read" =>
        IF vafignore.exists
        THEN ignorePatterns = PatternsOfFile(vafignore)
        ELSE /\ Range(ignorePatterns) =
                    { <<"node_modules", "/", "**">>, <<".git", "/", "**">>,
                      <<"*", ".log">>, <<".env">>, <<".DS_Store">> }
             /\ Len(ignorePatterns) = 5

\* a comment, then a padded pattern: the one pattern is returned trimmed
C17_Witness ==
    /\ packPc # "read" /\ vafignore.exists
    /\ vafignore.content = <<"#", " ", "node_modules", "\n", " ", "dist", "/", "**", "\t", "\r">>
    /\ ignorePatterns = << <<"dist", "/", "**">> >>

---------------------------------------------------------------------------
(* Properties of watch mode (SpecWatch) *)

\* C1: at most one deploy() is in flight at any time.
C1_AtMostOneDeployRunning == Len(running) <= 1

\* C2 as stated: every qualifying event restarts the one timer, so while
\* the process runs each burst of qualifying events less than DebounceSecs
\* apart gives exactly one deploy() invocation, started when DebounceSecs
\* have passed since the last qualifying event: with the timer pending the
\* latest burst has not started its invocation yet, otherwise every burst
\* has started one.
C2_OneInvocationPerBurst ==
    /\ lastFireQuiet \in {TimerOff, DebounceSecs}
    /\ alive =>
          /\ TimerPending => (started = bursts - 1 /\ deployTimer = DebounceSecs - sinceEvent)
          /\ ~TimerPending => started = bursts

\* C2 amended: every qualifying event restarts the one timer, so while the
\* process runs each burst gives at most one deploy() invocation, started
\* when DebounceSecs have passed since the last qualifying event, and
\* exactly one unless the next qualifying event is handled while the
\* burst's timer is due and its callback has not run: that event clears
\* the timer and the burst gets no invocation of its own.
C2_OneInvocationPerBurstUnlessCleared ==
    /\ lastFireQuiet \in {TimerOff, DebounceSecs}
    /\ superseded <= bursts
    /\ alive =>
          /\ TimerPending => /\ started = bursts - superseded - 1
                             /\ deployTimer = DebounceSecs - sinceEvent
          /\ ~TimerPending => started = bursts - superseded

\* three events in one burst whose due timer the fourth event cleared, and
\* the one invocation that followed the fourth
C2_Witness ==
    /\ alive /\ nEvents = 4 /\ bursts = 2 /\ superseded = 1 /\ started = 1
    /\ ~TimerPending /\ lastFireQuiet = DebounceSecs

\* outside watch mode an attempt always comes to its end (under SpecFair)
AttemptTerminates == <>(pc \in {"done", "exited"})

\* C19: an attempt, once started, runs to its own end: no step ends more
\* than the one attempt that returns, throws or exits in it, and a change
\* event leaves the attempts in flight and the process as they are.
C19_AttemptsRunToCompletion ==
    [][ /\ Len(running') >= Len(running) - 1
        /\ nEvents' # nEvents => (running' = running /\ alive' = alive) ]_vars

\* C28: no qualifying change is lost: whenever a burst of qualifying events
\* has not been followed by an invocation yet (its own, or that of the
\* burst whose first event cleared its timer), an invocation is eventually
\* started for it, whatever else is in flight (time passing and due timers
\* firing, qualifying events being finitely many).
C28_NoChangeLost == (started < bursts - superseded) ~> (started = bursts - superseded)

\* C29: watch mode is quiescent: no write of a deploy() in flight counts as
\* a qualifying event, so there are never more invocations than changes
\* made by the user.
C29_OwnWritesDoNotQualify == ownEvents = 0 /\ started <= nEvents

\* C30: a failed attempt does not end the watch session: whatever an
\* attempt in flight or a starting attempt does, the process keeps running.
C30_FailedAttemptKeepsSession == [][alive => alive']_vars

---------------------------------------------------------------------------
(* Properties of one deploy attempt (Spec) *)

Ended == pc \in {"done", "exited"}

Requests(op, arg) == { i \in DOMAIN log : log[i].op = op /\ log[i].arg = arg }
Ops(op) == { i \in DOMAIN log : log[i].op = op }

\* C3: the temporary package file never persists past the attempt that
\* created it: when the attempt has ended (returned, or raised and handed its
\* error on, or left through process.exit), the file is gone.
C3_TempZipNeverPersists == (Ended \/ pc = "threw") => TempZip \notin files

Polling == {"pollFetch", "pollWait"}

\* C4: the poll loop stops at the first terminal status: "success" is
\* reported as success (with the URL if there is one), "failed" as a failure
\* with the full logs, and no status fetch follows either; any other status,
\* while the budget lasts, leads to the wait and then to the next fetch.
C4_PollStopsAtTerminal ==
    /\ [] /\ deployment.status = "success" =>
                /\ pc \notin Polling
                /\ Msg("success", "Deployment completed successfully!") \in out
                /\ deployment.url => Msg("url", "URL") \in out
          /\ deployment.status = "failed" =>
                /\ pc \notin Polling
                /\ Msg("error", "Deployment failed") \in out
                /\ deployment.logs => Msg("logs", "full") \in out
          /\ (deployment.status = "pending" /\ fetches < maxAttempts) => pc \in Polling
    /\ [][ /\ IsTerminal(deployment.status) => fetches' = fetches
           /\ (pc = "pollWait" /\ fetches < maxAttempts) => pc' = "pollFetch" ]_vars

\* the second fetch returned "failed" and the attempt ended there
C4_Witness ==
    /\ pc = "done" /\ fetches = 2
    /\ deployment.status = "failed" /\ deployment.logs

\* C5: at most maxAttempts status fetches are issued; when all of them came
\* back non-terminal the loop ends with the timeout warning, no error and no
\* failure report, and the attempt completes without raising.
C5_PollBudget ==
    /\ fetches <= maxAttempts
    /\ attempts <= maxAttempts
    /\ attempts = maxAttempts =>
          /\ fetches = maxAttempts
          /\ pc \in {"finally", "done"}
          /\ Msg("warn", "Deployment is taking longer than expected...") \in out
          /\ \A m \in out : m.kind = "error" => m \in LoadReport(vafConfig)
          /\ raised = NoError
          /\ exitCode # 1

C5_Witness ==
    /\ pc = "done" /\ exitCode = 0
    /\ fetches = maxAttempts /\ attempts = maxAttempts
    /\ deployment.status = "pending"

\* the archive an upload-url request is made for
ArchiveOf(arg) == IF arg = "layer" THEN {"layer"} ELSE {"thin", "full"}

\* C7: the steps of one attempt follow build -> package -> upload ->
\* trigger -> poll: commands run before any archive is made, an upload-url
\* request is issued only once the archive it is for exists, the package is
\* PUT only after its upload-url came back, the release trigger is posted
\* only after the PUT of the package succeeded, and a status fetch is
\* issued only after the trigger returned a release id.
C7_StrictOrder ==
    /\ \A i \in DOMAIN log :
          /\ log[i].op = "exec" => \A j \in Ops("zip") : i < j
          /\ log[i].op = "GET upload-url" =>
                \E j \in Ops("zip") : j < i /\ log[j].ok /\ log[j].arg \in ArchiveOf(log[i].arg)
          /\ (log[i].op = "PUT" /\ log[i].arg = "package") =>
                \E j \in Requests("GET upload-url", "package") : j < i /\ log[j].ok
          /\ log[i].op = "POST deploy" =>
                \E j \in Requests("PUT", "package") : j < i /\ log[j].ok
    /\ pc \in {"uploadUrl", "upload", "trigger"} => TempZip \in files
    /\ pc \in {"layerUploadUrl", "layerUpload"} => LayerZip \in files
    /\ fetches > 0 =>
          /\ TruthyStr(deploymentId)
          /\ \E j \in Ops("POST deploy") : log[j].ok

\* an attempt that went through every step, one of its commands failing
C7_Witness ==
    /\ pc = "done" /\ fetches > 0
    /\ \E i \in Ops("exec") : ~log[i].ok
    /\ \E i \in Requests("zip", "full") : log[i].ok
    /\ \E i \in Requests("PUT", "package") : log[i].ok

NoMatch == ~FindEnvironment(backendEnvs, finalEnvName).found

\* C8: when the environment name matches no backend environment by name or
\* id, no upload-url request, layer publish or release trigger is issued,
\* and once the backend's list is in, the attempt fails with the
\* environment-not-found error and the list of valid environments; with
\* layers and without.
C8_UnknownEnvironmentStops ==
    (TruthyStr(finalEnvName) /\ NoMatch) =>
        /\ Ops("GET upload-url") = {} /\ Ops("POST layer") = {} /\ Ops("POST deploy") = {}
        /\ (\E i \in Ops("GET environments") : log[i].ok) =>
              /\ pc = "exited"
              /\ Msg("error", "Environment not found") \in out
              /\ \A i \in DOMAIN backendEnvs : Msg("available", backendEnvs[i].name) \in out

\* the name given matches nothing the backend lists, and the attempt stopped
C8_Witness ==
    /\ TruthyStr(finalEnvName) /\ NoMatch /\ pc = "exited"
    /\ \E i \in Ops("GET environments") : log[i].ok
    /\ Msg("error", "Environment not found") \in out
    /\ Msg("available", "develop") \in out

\* C9: layers are on by default: an attempt whose invocation does not say
\* otherwise never builds the single full package.
C9_LayersOnByDefault ==
    (~Has(options, "use-layers") /\ ~Has(options, "useLayers")) => Requests("zip", "full") = {}

\* C10: with a project id and an environment name both given as arguments
\* and an id declared in the project file, every backend request of the
\* attempt uses the project id given as argument.
C10_ExplicitProjectIdWins ==
    (Len(argv) = 2 /\ HasConfig(vafConfig) /\ Has(vafConfig, "id")) =>
        \A i \in DOMAIN log : log[i].project \in {"", argv[1]}

HasProjectId == HasConfig(vafConfig) /\ Has(vafConfig, "id")

\* the invocation is authenticated and its identifiers have been looked at
Resolved == token /\ pc \notin {"action", "start"}

\* C11: with an id in the project file (which declares its environments)
\* and exactly one positional argument, the argument becomes the environment
\* name if and only if the project file declares it; otherwise resolution
\* fails with the unknown-environment error and the full list of declared
\* environments, and nothing is built, packaged or requested.
C11_SingleArgumentIsEnvironment ==
    (HasProjectId /\ HasEnvironments(vafConfig) /\ Len(argv) = 1 /\ Resolved) =>
        IF argv[1] \in DeclaredEnvs(vafConfig)
        THEN finalEnvName = argv[1]
        ELSE /\ finalEnvName = Undefined
             /\ pc = "exited" /\ exitCode = 1
             /\ Msg("error", "Environment not found in vaf.yml") \in out
             /\ \A e \in DeclaredEnvs(vafConfig) : Msg("declared", e) \in out
             /\ log = << >> /\ files = {}

\* C12: without a project file, an invocation that lacks the project id or
\* the environment name fails with the missing-identifier error before any
\* command, archive or backend request.
C12_MissingIdentifierStops ==
    (vafConfig = NoConfig /\ Len(argv) < 2 /\ Resolved) =>
        /\ pc = "exited" /\ exitCode = 1
        /\ Msg("error", IF Len(argv) = 0 THEN "Project ID is required"
                        ELSE "Environment name is required") \in out
        /\ log = << >> /\ files = {}

\* the environment name is missing
C12_Witness ==
    /\ vafConfig = NoConfig /\ argv = <<"p1">> /\ pc = "exited"
    /\ Msg("error", "Environment name is required") \in out

\* C14: when the upload-url response carries a key, the deploymentKey of the
\* release payload is exactly that key, and the key made on the client is
\* used only when the response carries none; the layerKey published is the
\* key returned for the layer upload.
C14_BackendKeyIsUsed ==
    /\ uploadUrlResponse.key # Undefined =>
          /\ deploymentKey = uploadUrlResponse.key
          /\ Has(payload, "deploymentKey") => payload.deploymentKey = uploadUrlResponse.key
    /\ (Has(payload, "deploymentKey") /\ payload.deploymentKey = ClientKey) =>
          uploadUrlResponse.key = Undefined
    /\ \A i \in Ops("POST deploy") : log[i].arg = payload.deploymentKey
    /\ \A i \in Ops("POST layer") : log[i].arg = layerKey /\ log[i].arg = "layers/backend-key"

\* an attempt that was released under the backend's key
C14_Witness ==
    /\ pc = "done" /\ \E i \in Ops("POST deploy") : log[i].ok
    /\ uploadUrlResponse.key = "deployments/backend-key"
    /\ payload.deploymentKey = "deployments/backend-key"

\* the runtime the attempt resolves to (line 663)
ResolvedRuntime == OrDefault(options, envConfig.cfg, "runtime", DefaultRuntime)

\* C16: an attempt whose resolved runtime is the container marker runs no
\* build command, installs nothing, makes no zip package or layer and asks
\* for no upload URL.
C16_ContainerPathExclusive ==
    ResolvedRuntime = "docker" =>
        Ops("exec") = {} /\ Ops("zip") = {} /\ Ops("GET upload-url") = {}

Min(a, b) == IF a < b THEN a ELSE b

\* C18: the declared build commands run one at a time in their declared
\* order, and whichever of them fail, every later one still runs, nothing is
\* raised, and the attempt goes on to install the dependencies.
C18_BuildFailuresAreNotFatal ==
    (Resolved /\ RunsDeclaredBuild) =>
        LET build == envConfig.cfg.build
        IN  /\ \A i \in 1..Min(Len(log), Len(build)) :
                  log[i].op = "exec" /\ log[i].arg = build[i]
            /\ pc = "build" => (Len(log) = buildIdx - 1 /\ buildIdx <= Len(build) + 1)
            /\ pc \in {"build", "install"} => (raised = NoError /\ exitCode = NotExited)
            /\ pc # "build" => Len(log) >= Len(build)
            /\ pc \notin {"build", "install"} =>
                  /\ Len(log) > Len(build)
                  /\ log[Len(build) + 1] \in
                        {Ev("exec", PrimaryInstall, "", "", ok) : ok \in BOOLEAN}

\* both declared commands failed and the attempt still deployed
C18_Witness ==
    /\ pc = "done" /\ RunsDeclaredBuild /\ Len(envConfig.cfg.build) = 2
    /\ ~log[1].ok /\ ~log[2].ok
    /\ Ops("POST deploy") # {}

\* C22: an error thrown by a status fetch ends the poll loop at once: no
\* fetch follows it, the step reports the error's own message (the fallback
\* text when it has none) and nothing else, neither "Deployment failed" nor
\* the release logs are reported, nothing is raised out of
\* pollDeploymentStatus and the attempt ends without an exit code of 1.
C22_FetchErrorEndsPolling ==
    /\ [] (deployment.status = "<threw>" =>
              /\ pc \in {"finally", "done"}
              /\ raised = NoError /\ exitCode # 1
              /\ deployment.error.message # "" =>
                    Msg("error", deployment.error.message) \in out
              /\ deployment.error.message = "" =>
                    Msg("error", "Failed to check deployment status") \in out
              /\ Msg("error", "Deployment failed") \notin out
              /\ Msg("logs", "full") \notin out)
    /\ [][ /\ deployment.status = "<threw>" => fetches' = fetches
           /\ (deployment'.status = "<threw>" /\ deployment.status # "<threw>") =>
                 /\ Cardinality(out' \ out) <= 1
                 /\ \A m \in out' \ out : m.kind = "error" ]_vars

\* the second fetch threw an error without a message, after a pending
\* status whose log lines were shown
C22_Witness ==
    /\ deployment.status = "<threw>" /\ pc = "done" /\ fetches = 2
    /\ deployment.error.message = ""
    /\ Msg("logs", "last 5 lines") \in out

InstallNames == {PrimaryInstall, FallbackInstall}

\* the build commands run so far: every command but the installs
BuildExecs == { i \in Ops("exec") : log[i].arg \notin InstallNames }

\* identifiers resolved and the build stage behind
BuildStageOver == pc \notin {"action", "start", "build"} /\ TruthyStr(finalEnvName)

\* the invocation asks for no build: --no-build on the command line, or the
\* key 'no-build' that line 474 reads
BuildSuppressed ==
    \/ Has(options, "build") /\ ~options.build
    \/ Has(options, "no-build") /\ options["no-build"]

DeclaredBuildEmptyOrAbsent ==
    ~envConfig.defined \/ ~Has(envConfig.cfg, "build") \/ envConfig.cfg.build = << >>

\* C24: once the build stage is over, "npm run build" has been executed if
\* and only if the build is not suppressed and the declared build list is
\* empty or absent; with the build suppressed no build command has been
\* executed at all.
C24_FallbackBuildIffNeeded ==
    BuildStageOver =>
        /\ Requests("exec", "npm run build") # {} <=>
              (~BuildSuppressed /\ DeclaredBuildEmptyOrAbsent)
        /\ BuildSuppressed => BuildExecs = {}

\* C25: an attempt runs the primary install once, and the fallback install
\* once if and only if the primary failed, right after it; whatever their
\* outcome the install raises nothing, exits nowhere and hands on to
\* packaging, which begins by reading the ignore file (line 513), with a
\* warning when both failed.  While the install is under way the only
\* place the attempt can be besides line 513 is the await of the fallback,
\* and from there the next step is line 513.
C25_InstallTwoAttemptsNeverFatal ==
    /\ [] LET ci == Requests("exec", PrimaryInstall)
              fb == Requests("exec", FallbackInstall)
          IN  /\ Cardinality(ci) <= 1 /\ Cardinality(fb) <= 1
              /\ (pc \notin {"action", "start", "build", "install"} /\ TruthyStr(finalEnvName)) =>
                    Cardinality(ci) = 1
              /\ pc = "ignore" => (raised = NoError /\ exitCode = NotExited)
              /\ fb # {} => (\E i \in ci : ~log[i].ok)
              /\ (\E i \in ci : ~log[i].ok) => (fb # {} \/ FallbackPending)
              /\ \A j \in fb : j - 1 \in ci
              /\ (\E j \in fb : ~log[j].ok) =>
                    Msg("warn", "Failed to install production dependencies") \in out
    /\ [][ pc = "install" =>
              /\ raised' = NoError /\ exitCode' = NotExited
              /\ pc' = "ignore" \/ (~FallbackPending /\ FallbackPending') ]_vars

\* both installs failed and the attempt still released
C25_Witness ==
    /\ pc = "done"
    /\ \E i \in Requests("exec", PrimaryInstall) : ~log[i].ok
    /\ \E i \in Requests("exec", FallbackInstall) : ~log[i].ok
    /\ \E i \in Ops("POST deploy") : log[i].ok

PublishedOk == \E k \in Ops("POST layer") : log[k].ok

ArtifactFailed ==
    \/ \E i \in Ops("existsSync") : ~log[i].ok
    \/ \E i \in Ops("zip") : ~log[i].ok
    \/ \E i \in Ops("PUT") : ~log[i].ok

\* C27: when node_modules is missing on the layer path, an archive cannot
\* be made or a PUT fails, the attempt raises an error, posts no release
\* trigger and fetches no status; the missing directory is named by the
\* error, and a failed PUT of the package is reported with the message of
\* the transport error, which is the error raised.
C27_NoTriggerWithoutArtifacts ==
    /\ ArtifactFailed =>
          /\ Ops("POST deploy") = {} /\ fetches = 0 /\ payload = EmptyObj
          /\ raised # NoError
          /\ pc \in {"finally", "threw", "exited"}
          /\ pc = "exited" => (exitCode = 1 /\ Msg("error", raised.message) \in out)
    /\ (\E i \in Ops("existsSync") : ~log[i].ok) =>
          raised = Err("node_modules not found. Run npm install first.")
    /\ (\E i \in Requests("PUT", "package") : ~log[i].ok) =>
          /\ raised.message \in {"socket hang up", "connect ETIMEDOUT"}
          /\ raised.message = "socket hang up" =>
                Msg("error", "Failed to upload package: socket hang up") \in out
          /\ raised.message = "connect ETIMEDOUT" =>
                Msg("error", "Failed to upload package: connect ETIMEDOUT") \in out

\* the PUT of the package timed out
C27_Witness ==
    /\ pc = "exited" /\ exitCode = 1
    /\ \E i \in Requests("zip", "full") : log[i].ok
    /\ \E i \in Requests("PUT", "package") : ~log[i].ok
    /\ raised.message = "connect ETIMEDOUT"
    /\ Ops("POST deploy") = {}

---------------------------------------------------------------------------
(* Properties of the release payload (SpecParams) *)

StringFields    == {"runtime", "handler"}
NumberFields    == {"memory", "timeout"}
ReferenceFields == {"database", "cache", "storage"}
OverridableFields == StringFields \cup NumberFields \cup ReferenceFields

\* a value, or none, as a sequence of length one or zero
ValueIn(obj, f) == IF Has(obj, f) THEN <<obj[f]>> ELSE << >>

BuiltInDefault(f) ==
    IF f = "runtime" THEN <<"nodejs18.x">>
    ELSE IF f = "handler" THEN <<"index.handler">>
    ELSE << >>

\* a reference that is blank is left out of the payload
Placed(f, chosen) ==
    IF f \in ReferenceFields /\ chosen # << >> /\ Blank(chosen[1]) THEN << >> ELSE chosen

\* C6: per field, independently of the others, the payload holds the override
\* if one was given, else the value the environment declares, else the
\* built-in default (or nothing when there is none); a database, cache or
\* storage value that is blank is left out.
C6_OverrideEnvDefault ==
    pDone => \A f \in OverridableFields :
        ValueIn(pPayload, f) =
            Placed(f, IF Has(pOptions, f) THEN <<pOptions[f]>>
                      ELSE IF Has(pEnvConfig, f) THEN <<pEnvConfig[f]>>
                      ELSE BuiltInDefault(f))

\* C15: each of database, cache and storage is in the payload if and only
\* if its resolved value is non-empty after trimming, and then with that
\* value; an empty or whitespace-only value is left out, never sent.
C15_BlankReferencesOmitted ==
    pDone => \A f \in ReferenceFields :
        LET v == ReferenceValue(pOptions, pEnvConfig, f)
        IN  /\ Has(pPayload, f) <=> (Has(v, f) /\ ~Blank(v[f]))
            /\ Has(pPayload, f) => (pPayload[f] = v[f] /\ pPayload[f] # << >>)

\* a whitespace-only cache override left out next to a database that is sent
C15_Witness ==
    /\ pDone
    /\ Has(pOptions, "cache") /\ pOptions.cache = <<" ">> /\ ~Has(pPayload, "cache")
    /\ Has(pEnvConfig, "storage") /\ ~Has(pOptions, "storage") /\ ~Has(pPayload, "storage")
    /\ Has(pPayload, "database")

=============================================================================
